---------------------------- MODULE Spec2Model ----------------------------
(***************************************************************************)
(* Model of backend/ai_chat_llama3.py: a one-shot command-line bridge that *)
(* loads a causal language model, reads one JSON request from standard     *)
(* input, generates a reply, prints one JSON object and exits.             *)
(*                                                                         *)
(* Text is modelled as sequences of one-character strings, so that the     *)
(* string operations of generate_response (split, strip, slicing,          *)
(* endswith) are computed as Python computes them.  The tokenizer, the     *)
(* model and the JSON parser are library code: their results are inputs    *)
(* of the model, drawn from bounded sets.                                  *)
(***************************************************************************)
EXTENDS Integers, Sequences, FiniteSets

(***************************************************************************)
(* Bounds of the model.                                                    *)
(***************************************************************************)
\* decoded first lines have up to WordLimit + MaxExtraWords words
MaxExtraWords == 2
\* each word of a decoded line has up to MaxWordLen characters
MaxWordLen == 5

(***************************************************************************)
(* Literals of the program.                                                *)
(***************************************************************************)
\* line 93: len(response.split()) > 50
WordLimit == 50
\* line 94: response[:200]
CharLimit == 200
\* line 94: "..."
ELLIPSIS == << ".", ".", "." >>
\* line 88: the separator "\nAssistant:"
LABEL ==
  << "\n", "A", "s", "s", "i", "s", "t", "a", "n", "t", ":" >>
\* the label without its leading newline
BARE_LABEL ==
  << "A", "s", "s", "i", "s", "t", "a", "n", "t", ":" >>
\* line 92: the sentence substituted for an empty candidate
FALLBACK ==
  <<
    "I", "'", "m", " ", "s", "o", "r", "r", "y", ",", " ", "K", "r", "i", "s", "h", "n", "a",
    " ", "i", "s", " ", "h", "e", "r", "e", " ", "t", "o", " ", "h", "e", "l", "p", ".", " ",
    "P", "l", "e", "a", "s", "e", " ", "p", "r", "o", "v", "i", "d", "e", " ", "m", "o", "r",
    "e", " ", "d", "e", "t", "a", "i", "l", "s", " ", "s", "o", " ", "I", " ", "c", "a", "n",
    " ", "a", "s", "s", "i", "s", "t", " ", "y", "o", "u", " ", "b", "e", "t", "t", "e", "r",
    "." >>
\* lines 106 and 108: the sentence returned when generation raises
APOLOGY ==
  <<
    "I", "'", "m", " ", "s", "o", "r", "r", "y", ",", " ", "K", "r", "i", "s", "h", "n", "a",
    " ", "e", "n", "c", "o", "u", "n", "t", "e", "r", "e", "d", " ", "a", "n", " ", "e", "r",
    "r", "o", "r", ".", " ", "P", "l", "e", "a", "s", "e", " ", "t", "r", "y", " ", "a", "g",
    "a", "i", "n", "." >>
\* lines 122 and 126: the key "message"
MESSAGE_KEY ==
  << "m", "e", "s", "s", "a", "g", "e" >>

(***************************************************************************)
(* Python string operations.                                               *)
(***************************************************************************)
\* the characters str.strip() and str.split() treat as whitespace
IsSpace(c) == c \in {" ", "\n", "\t", "\r"}

RECURSIVE FirstNonSpace(_, _)
FirstNonSpace(s, i) ==
  IF i > Len(s) THEN i
  ELSE IF IsSpace(s[i]) THEN FirstNonSpace(s, i + 1) ELSE i

RECURSIVE LastNonSpace(_, _)
LastNonSpace(s, i) ==
  IF i < 1 THEN i
  ELSE IF IsSpace(s[i]) THEN LastNonSpace(s, i - 1) ELSE i

\* s.strip()
Strip(s) == SubSeq(s, FirstNonSpace(s, 1), LastNonSpace(s, Len(s)))

\* s.startswith(sub, i - 1), i counted from 1
MatchAt(s, sub, i) ==
  /\ i + Len(sub) - 1 <= Len(s)
  /\ \A k \in 1..Len(sub) : s[i + k - 1] = sub[k]

\* the positions at which sep occurs in s
Occurrences(s, sep) == {i \in 1..Len(s) : MatchAt(s, sep, i)}

\* s.split(sep)[-1] for a separator that cannot overlap itself (no proper
\* suffix of it is a prefix of it): the text after the last occurrence, or
\* all of s when there is none
SplitLast(s, sep) ==
  LET occ == Occurrences(s, sep)
  IN  IF occ = {} THEN s
      ELSE LET last == CHOOSE i \in occ : \A j \in occ : j <= i
           IN  SubSeq(s, last + Len(sep), Len(s))

\* s.split("\n")[0]: the text before the first newline, or all of s
FirstLine(s) ==
  LET nl == {i \in 1..Len(s) : s[i] = "\n"}
  IN  IF nl = {} THEN s
      ELSE LET first == CHOOSE i \in nl : \A j \in nl : i <= j
           IN  SubSeq(s, 1, first - 1)

\* len(s.split()): the number of maximal runs of non-whitespace characters
WordCount(s) ==
  Cardinality({i \in 1..Len(s) :
                 /\ ~IsSpace(s[i])
                 /\ (i = 1 \/ IsSpace(s[i - 1]))})

\* s[:n]
Prefix(s, n) == SubSeq(s, 1, IF Len(s) < n THEN Len(s) ELSE n)

\* s.endswith(c) for a one-character c
EndsWith(s, c) == Len(s) > 0 /\ s[Len(s)] = c

\* sub in s, for strings
StrContains(s, sub) == \E i \in 1..(Len(s) + 1) : MatchAt(s, sub, i)

(***************************************************************************)
(* Values produced by json.loads, tagged with their Python type.           *)
(***************************************************************************)
JNull == [t |-> "null", v |-> <<>>]
JNumber(n) == [t |-> "number", v |-> n]
JString(s) == [t |-> "string", v |-> s]
JList(items) == [t |-> "list", v |-> items]
\* a dict holding the single key k
JObject(k, val) == [t |-> "object", v |-> [key \in {k} |-> val]]
JEmptyObject == [t |-> "object", v |-> [key \in {} |-> JNull]]

\* key in data (line 122) raises TypeError for a value that is not a container
ContainsRaises(data) == data.t \in {"null", "number"}

\* key in data (line 122): a key of a dict, an element of a list, a substring
\* of a string
Contains(data, key) ==
  CASE data.t = "object" -> key \in DOMAIN data.v
    [] data.t = "list" ->
         \E i \in 1..Len(data.v) : data.v[i].t = "string" /\ data.v[i].v = key
    [] data.t = "string" -> StrContains(data.v, key)
    [] OTHER -> FALSE

\* data[key] (line 126) raises TypeError for a list or a string
SubscriptRaises(data) == data.t # "object"

\* data[key] (line 126)
Subscript(data, key) == data.v[key]

(***************************************************************************)
(* Inputs of one run.                                                      *)
(***************************************************************************)
HI == << "h", "i" >>
FOO == << "f", "o", "o" >>
NOT_JSON == << "n", "o", "t", " ", "j", "s", "o", "n" >>

\* os.getenv("MODEL_PATH"): unset, empty, a path that is absent, a path that
\* holds the model files
ModelPaths == {"None", "", "/no/such/dir", "/models/llama3"}
\* os.path.exists
PathExists(path) == path = "/models/llama3"
\* not MODEL_PATH (line 18)
Falsy(path) == path \in {"None", ""}

\* values found under the key "message"
Messages == {JString(HI), JNumber(5), JNull}

\* documents json.loads accepts
DataValues ==
  {JObject(MESSAGE_KEY, m) : m \in Messages}
    \cup {JObject(FOO, JString(HI)), JEmptyObject}
    \cup {JNull, JNumber(5), JString(MESSAGE_KEY), JString(HI),
          JList(<<JString(MESSAGE_KEY)>>), JList(<<>>)}

\* contents of standard input: text that is not a JSON document (possibly
\* empty or blank), or a JSON document given by the value it parses to
StdinInputs ==
  {[t |-> "text", v |-> txt] : txt \in {<<>>, <<" ", "\n">>, NOT_JSON}}
    \cup {[t |-> "json", v |-> d] : d \in DataValues}

\* n words of len characters, separated by single spaces
Words(n, len) ==
  [i \in 1..(n * (len + 1) - 1) |-> IF i % (len + 1) = 0 THEN " " ELSE "a"]

WordCounts == {0, 1} \cup ((WordLimit - 1)..(WordLimit + MaxExtraWords))
WordLens == {1, 3, MaxWordLen}

\* what the model writes after the prompt: an optional leading newline, a line
\* of words, an optional end, and optional further text
Continuations ==
  {lead \o Words(n, len) \o end \o tail :
     lead \in {<<>>, <<"\n">>},
     n \in WordCounts,
     len \in WordLens,
     end \in {<<>>, <<".">>, <<" ">>},
     tail \in {<<>>, <<"\n", "b">>, <<" ">> \o BARE_LABEL \o <<" ", "b">>,
               LABEL \o <<" ", "c", ".">>}}

\* tokenizer.decode(outputs[0]): the prompt (here its last turn, or nothing
\* when truncation cut the label off) followed by the continuation
RawOutputs ==
  {echo \o c : echo \in {<<>>, <<"A", "g", "e", "n", "t", ":", " ">> \o HI \o LABEL},
               c \in Continuations}

(***************************************************************************)
(* Exceptions.                                                             *)
(***************************************************************************)
\* variant: the catch-all also catches SystemExit (as a bare except would)
IsBaseException(e) == e \in {"JSONDecodeError", "TypeError", "MemoryError",
                             "OutOfMemoryError", "RuntimeError", "SystemExit"}

\* isinstance(e, Exception): SystemExit derives from BaseException only
IsException(e) == e \in {"JSONDecodeError", "TypeError", "MemoryError",
                         "OutOfMemoryError", "RuntimeError"}

\* what generation (lines 68-86) can raise
GenerationErrors == {"OutOfMemoryError", "RuntimeError"}

\* the status the interpreter exits with: sys.exit(1) or normal completion
ExitCode(e) == IF e = "SystemExit" THEN 1 ELSE 0

(***************************************************************************)
(* generate_response: the text processing of lines 88-104.                 *)
(***************************************************************************)
\* lines 88-89: the first line of the stripped text after the last label
Candidate(raw) == Strip(FirstLine(Strip(SplitLast(raw, LABEL))))

\* variant: line 95-96 left out, no final period is appended
PostProcessNoPeriod(response) ==
  IF response = <<>> THEN FALLBACK
  ELSE IF WordCount(response) > WordLimit
       THEN Prefix(response, CharLimit) \o ELLIPSIS
       ELSE response

\* variant: line 93 compares with >= instead of >
PostProcessFromLimit(response) ==
  LET r == IF response = <<>> THEN FALLBACK
           ELSE IF WordCount(response) >= WordLimit
                THEN Prefix(response, CharLimit) \o ELLIPSIS
                ELSE response
  IN  IF ~EndsWith(r, ".") THEN r \o <<".">> ELSE r

\* lines 91-96: fallback, truncation, final period
PostProcess(response) ==
  LET r == IF response = <<>> THEN FALLBACK
           ELSE IF WordCount(response) > WordLimit
                THEN Prefix(response, CharLimit) \o ELLIPSIS
                ELSE response
  IN  IF ~EndsWith(r, ".") THEN r \o <<".">> ELSE r

\* lines 101-104: the dict returned when nothing raised
Reply(raw) == [response |-> PostProcess(Candidate(raw)), escalate |-> FALSE]

\* variant: the except clauses return escalate False
GenerationFailedQuietly == [response |-> APOLOGY, escalate |-> FALSE]

\* lines 105-108: the dict returned by both except clauses
GenerationFailed == [response |-> APOLOGY, escalate |-> TRUE]

(***************************************************************************)
(* State.                                                                  *)
(***************************************************************************)
VARIABLES
  pc,            \* the line the interpreter is at
  MODEL_PATH,    \* line 17
  stdin,         \* contents of standard input
  tokenizer,     \* "unbound", "loaded" or "deleted"
  model,         \* "unbound", "loaded" or "deleted"
  input_data,    \* line 115
  data,          \* line 121
  user_message,  \* line 126
  raw_output,    \* line 86
  response_data, \* line 127
  exc,           \* the exception in flight, or "None"
  out,           \* the objects printed to standard output, in order
  exitStatus,    \* <<>> while running, <<status>> once the process has exited
  tokenizerLoads, \* calls of AutoTokenizer.from_pretrained
  modelLoads,    \* calls of AutoModelForCausalLM.from_pretrained
  stdinReads,    \* calls of sys.stdin.read
  genCalls,      \* calls of generate_response
  genRaised,     \* an exception was raised inside the try of generate_response
  cleanups,      \* executions of the finally block
  cacheClears    \* calls of torch.cuda.empty_cache

vars == << pc, MODEL_PATH, stdin, tokenizer, model, input_data, data,
           user_message, raw_output, response_data, exc, out, exitStatus,
           tokenizerLoads, modelLoads, stdinReads, genCalls, genRaised,
           cleanups, cacheClears >>

inputs == << MODEL_PATH, stdin >>
objects == << tokenizer, model >>
locals == << input_data, data, user_message, raw_output, response_data >>
counters == << tokenizerLoads, modelLoads, stdinReads, genCalls, genRaised,
               cleanups, cacheClears >>

Init ==
  /\ pc = "L17"
  /\ MODEL_PATH \in ModelPaths
  /\ stdin \in StdinInputs
  /\ tokenizer = "unbound"
  /\ model = "unbound"
  /\ input_data = "unbound"
  /\ data = "unbound"
  /\ user_message = "unbound"
  /\ raw_output = "unbound"
  /\ response_data = "unbound"
  /\ exc = "None"
  /\ out = <<>>
  /\ exitStatus = <<>>
  /\ tokenizerLoads = 0
  /\ modelLoads = 0
  /\ stdinReads = 0
  /\ genCalls = 0
  /\ genRaised = FALSE
  /\ cleanups = 0
  /\ cacheClears = 0

\* print(json.dumps(obj))
Emit(obj) == out' = Append(out, obj)

(***************************************************************************)
(* 1. Module-level loader, lines 17-46.  sys.exit(1) here is outside any   *)
(* try statement: the interpreter exits at once.                           *)
(***************************************************************************)
\* lines 17-20
CheckModelPath ==
  /\ pc = "L17"
  /\ IF Falsy(MODEL_PATH)
     THEN /\ Emit([error |-> "MODEL_PATH not found in .env file."])
          /\ exc' = "SystemExit"
          /\ pc' = "end"
     ELSE /\ pc' = "L26"
          /\ UNCHANGED << out, exc >>
  /\ UNCHANGED << inputs, objects, locals, counters, exitStatus >>

\* variant: line 28 left out, the loader goes on after printing the error
CheckPathExistsNoExit ==
  /\ pc = "L26"
  /\ IF ~PathExists(MODEL_PATH)
     THEN Emit([error |-> "Model path does not exist"])
     ELSE UNCHANGED out
  /\ pc' = "L32"
  /\ UNCHANGED << inputs, objects, locals, counters, exitStatus, exc >>

\* lines 26-28
CheckPathExists ==
  /\ pc = "L26"
  /\ IF ~PathExists(MODEL_PATH)
     THEN /\ Emit([error |-> "Model path does not exist"])
          /\ exc' = "SystemExit"
          /\ pc' = "end"
     ELSE /\ pc' = "L32"
          /\ UNCHANGED << out, exc >>
  /\ UNCHANGED << inputs, objects, locals, counters, exitStatus >>

\* lines 31-35 and 44-46: the tokenizer is constructed, or construction raises
LoadTokenizer ==
  /\ pc = "L32"
  /\ tokenizerLoads' = tokenizerLoads + 1
  /\ \E ok \in BOOLEAN :
       IF ok
       THEN /\ tokenizer' = "loaded"
            /\ pc' = "L37"
            /\ UNCHANGED << out, exc >>
       ELSE /\ Emit([error |-> "Failed to load model"])
            /\ exc' = "SystemExit"
            /\ pc' = "end"
            /\ UNCHANGED tokenizer
  /\ UNCHANGED << inputs, model, locals, modelLoads, stdinReads, genCalls,
                  genRaised, cleanups, cacheClears, exitStatus >>

\* lines 37-46: the model is constructed, or construction raises
LoadModel ==
  /\ pc = "L37"
  /\ modelLoads' = modelLoads + 1
  /\ \E ok \in BOOLEAN :
       IF ok
       THEN /\ model' = "loaded"
            /\ pc' = "L115"
            /\ UNCHANGED << out, exc >>
       ELSE /\ Emit([error |-> "Failed to load model"])
            /\ exc' = "SystemExit"
            /\ pc' = "end"
            /\ UNCHANGED model
  /\ UNCHANGED << inputs, tokenizer, locals, tokenizerLoads, stdinReads,
                  genCalls, genRaised, cleanups, cacheClears, exitStatus >>

(***************************************************************************)
(* 4. Entrypoint, lines 113-144.  Inside the try statement sys.exit(1)     *)
(* raises SystemExit, which travels through the except clauses and the     *)
(* finally block before the interpreter exits.                             *)
(***************************************************************************)
\* line 115: the text is stripped; a JSON document stays the same document
ReadStdin ==
  /\ pc = "L115"
  /\ stdinReads' = stdinReads + 1
  /\ input_data' = IF stdin.t = "text"
                   THEN [t |-> "text", v |-> Strip(stdin.v)]
                   ELSE stdin
  /\ pc' = "L117"
  /\ UNCHANGED << inputs, objects, data, user_message, raw_output,
                  response_data, exc, out, exitStatus, tokenizerLoads,
                  modelLoads, genCalls, genRaised, cleanups, cacheClears >>

\* lines 117-119
CheckInput ==
  /\ pc = "L117"
  /\ IF input_data.t = "text" /\ input_data.v = <<>>
     THEN /\ Emit([error |-> "No input data received."])
          /\ exc' = "SystemExit"
          /\ pc' = "except"
     ELSE /\ pc' = "L121"
          /\ UNCHANGED << out, exc >>
  /\ UNCHANGED << inputs, objects, locals, counters, exitStatus >>

\* line 121: json.loads returns the document's value or raises
ParseJson ==
  /\ pc = "L121"
  /\ IF input_data.t = "json"
     THEN /\ data' = input_data.v
          /\ pc' = "L122"
          /\ UNCHANGED exc
     ELSE /\ exc' = "JSONDecodeError"
          /\ pc' = "except"
          /\ UNCHANGED data
  /\ UNCHANGED << inputs, objects, input_data, user_message, raw_output,
                  response_data, out, counters, exitStatus >>

\* lines 122-124
CheckMessageKey ==
  /\ pc = "L122"
  /\ IF ContainsRaises(data)
     THEN /\ exc' = "TypeError"
          /\ pc' = "except"
          /\ UNCHANGED out
     ELSE IF ~Contains(data, MESSAGE_KEY)
          THEN /\ Emit([error |-> "Input JSON does not contain 'message' key."])
               /\ exc' = "SystemExit"
               /\ pc' = "except"
          ELSE /\ pc' = "L126"
               /\ UNCHANGED << out, exc >>
  /\ UNCHANGED << inputs, objects, locals, counters, exitStatus >>

\* line 126
GetMessage ==
  /\ pc = "L126"
  /\ IF SubscriptRaises(data)
     THEN /\ exc' = "TypeError"
          /\ pc' = "except"
          /\ UNCHANGED user_message
     ELSE /\ user_message' = Subscript(data, MESSAGE_KEY)
          /\ pc' = "L65"
          /\ UNCHANGED exc
  /\ UNCHANGED << inputs, objects, input_data, data, raw_output,
                  response_data, out, counters, exitStatus >>

(***************************************************************************)
(* 3. generate_response, lines 58-108, entered from line 127.              *)
(***************************************************************************)
\* line 65: the prompt is built before the try statement is entered, so an
\* exception raised here (MemoryError for a message too large to copy)
\* leaves generate_response
FormatPrompt ==
  /\ pc = "L65"
  /\ genCalls' = genCalls + 1
  /\ \E e \in {"None", "MemoryError"} :
       /\ exc' = e
       /\ pc' = IF e = "None" THEN "L68" ELSE "except"
  /\ UNCHANGED << inputs, objects, locals, out, exitStatus, tokenizerLoads,
                  modelLoads, stdinReads, genRaised, cleanups, cacheClears >>

\* lines 105-108: either except clause returns the apology to line 127
CatchInGenerate ==
  /\ genRaised' = TRUE
  /\ response_data' = GenerationFailed
  /\ pc' = "L128"

\* lines 68-74
Tokenize ==
  /\ pc = "L68"
  /\ \E e \in {"None"} \cup GenerationErrors :
       IF e = "None"
       THEN /\ pc' = "L77"
            /\ UNCHANGED << response_data, genRaised >>
       ELSE CatchInGenerate
  /\ UNCHANGED << inputs, objects, input_data, data, user_message, raw_output,
                  exc, out, exitStatus, tokenizerLoads, modelLoads, stdinReads,
                  genCalls, cleanups, cacheClears >>

\* lines 76-84
Generate ==
  /\ pc = "L77"
  /\ \E e \in {"None"} \cup GenerationErrors :
       IF e = "None"
       THEN /\ pc' = "L86"
            /\ UNCHANGED << response_data, genRaised >>
       ELSE CatchInGenerate
  /\ UNCHANGED << inputs, objects, input_data, data, user_message, raw_output,
                  exc, out, exitStatus, tokenizerLoads, modelLoads, stdinReads,
                  genCalls, cleanups, cacheClears >>

\* line 86: the decoded text is whatever the model produced
Decode ==
  /\ pc = "L86"
  /\ \/ /\ raw_output' \in RawOutputs
        /\ pc' = "L88"
        /\ UNCHANGED << response_data, genRaised >>
     \/ /\ CatchInGenerate
        /\ UNCHANGED raw_output
  /\ UNCHANGED << inputs, objects, input_data, data, user_message,
                  exc, out, exitStatus, tokenizerLoads, modelLoads, stdinReads,
                  genCalls, cleanups, cacheClears >>

\* lines 88-104: extraction and post-processing, returned to line 127
PostProcessReply ==
  /\ pc = "L88"
  /\ response_data' = Reply(raw_output)
  /\ pc' = "L128"
  /\ UNCHANGED << inputs, objects, input_data, data, user_message, raw_output,
                  exc, out, exitStatus, counters >>

\* line 128
PrintResponse ==
  /\ pc = "L128"
  /\ Emit(response_data)
  /\ pc' = "finally"
  /\ UNCHANGED << inputs, objects, locals, exc, exitStatus, counters >>

\* variant: line 135 left out, the catch-all prints and falls through
ExceptHandlersNoExit ==
  /\ pc = "except"
  /\ IF exc = "JSONDecodeError"
     THEN /\ Emit([error |-> "Error parsing input JSON"])
          /\ exc' = "SystemExit"
     ELSE IF IsException(exc)
          THEN /\ Emit([error |-> "Error processing request"])
               /\ exc' = "None"
          ELSE UNCHANGED << out, exc >>
  /\ pc' = "finally"
  /\ UNCHANGED << inputs, objects, locals, counters, exitStatus >>

\* lines 130-135: the except clauses of the entrypoint; an exception neither
\* clause matches passes through unchanged
ExceptHandlers ==
  /\ pc = "except"
  /\ IF exc = "JSONDecodeError"
     THEN /\ Emit([error |-> "Error parsing input JSON"])
          /\ exc' = "SystemExit"
     ELSE IF IsException(exc)
          THEN /\ Emit([error |-> "Error processing request"])
               /\ exc' = "SystemExit"
          ELSE UNCHANGED << out, exc >>
  /\ pc' = "finally"
  /\ UNCHANGED << inputs, objects, locals, counters, exitStatus >>

\* variant: the cleanup follows the try statement instead of being its
\* finally block, so it is skipped while SystemExit is in flight
CleanupAfterTry ==
  /\ pc = "finally"
  /\ IF exc = "None"
     THEN /\ cleanups' = cleanups + 1
          /\ model' = "deleted"
          /\ tokenizer' = "deleted"
          /\ \E available \in BOOLEAN :
               cacheClears' = IF available THEN cacheClears + 1 ELSE cacheClears
     ELSE UNCHANGED << cleanups, model, tokenizer, cacheClears >>
  /\ pc' = "end"
  /\ UNCHANGED << inputs, locals, exc, out, exitStatus, tokenizerLoads,
                  modelLoads, stdinReads, genCalls, genRaised >>

\* lines 136-144: the references are dropped and, when
\* torch.cuda.is_available() holds, the cache is cleared; an exception raised
\* in here is swallowed
Finally ==
  /\ pc = "finally"
  /\ cleanups' = cleanups + 1
  /\ model' = "deleted"
  /\ tokenizer' = "deleted"
  /\ \E available \in BOOLEAN :
       cacheClears' = IF available THEN cacheClears + 1 ELSE cacheClears
  /\ pc' = "end"
  /\ UNCHANGED << inputs, locals, exc, out, exitStatus, tokenizerLoads,
                  modelLoads, stdinReads, genCalls, genRaised >>

\* the interpreter exits: status 1 when SystemExit is in flight, else 0
Exit ==
  /\ pc = "end"
  /\ exitStatus' = <<ExitCode(exc)>>
  /\ pc' = "exited"
  /\ UNCHANGED << inputs, objects, locals, exc, out, counters >>

Next ==
  \/ CheckModelPath
  \/ CheckPathExists
  \/ LoadTokenizer
  \/ LoadModel
  \/ ReadStdin
  \/ CheckInput
  \/ ParseJson
  \/ CheckMessageKey
  \/ GetMessage
  \/ FormatPrompt
  \/ Tokenize
  \/ Generate
  \/ Decode
  \/ PostProcessReply
  \/ PrintResponse
  \/ ExceptHandlers
  \/ Finally
  \/ Exit

Spec == Init /\ [][Next]_vars

(***************************************************************************)
(* Properties.                                                             *)
(***************************************************************************)
IsResponseObject(o) == DOMAIN o = {"response", "escalate"}
IsErrorObject(o) == DOMAIN o = {"error"}
Exited == pc = "exited"
PrintedResponse == Len(out) > 0 /\ IsResponseObject(out[1])
PrintedError == Len(out) > 0 /\ IsErrorObject(out[1])
\* the errors printed by the module-level loader
LoaderErrors == {"MODEL_PATH not found in .env file.",
                 "Model path does not exist", "Failed to load model"}
\* standard input holds an object whose "message" is a string
ValidRequest ==
  /\ stdin.t = "json"
  /\ stdin.v.t = "object"
  /\ MESSAGE_KEY \in DOMAIN stdin.v.v
  /\ stdin.v.v[MESSAGE_KEY].t = "string"
\* C1: at no time have two objects been printed, every printed object is a
\* response object or an error object, and when the process has terminated
\* exactly one object has been printed.
ExactlyOneObjectPrinted ==
  /\ Len(out) <= 1
  /\ \A i \in 1..Len(out) : IsResponseObject(out[i]) \/ IsErrorObject(out[i])
  /\ Exited => Len(out) = 1

\* the process has terminated through sys.exit(1) raised inside the try
\* statement after an error object was printed
SysExitAfterErrorPrinted ==
  /\ Exited
  /\ exc = "SystemExit"
  /\ cleanups = 1
  /\ PrintedError
  /\ out[1].error = "No input data received."

\* C2: when the process has terminated, its exit status is 0 exactly when the
\* printed object is a response object and 1 exactly when it is an error
\* object.
ExitStatusMatchesObject ==
  Exited =>
    /\ Len(exitStatus) = 1
    /\ exitStatus[1] \in {0, 1}
    /\ exitStatus[1] = 0 <=> PrintedResponse
    /\ exitStatus[1] = 1 <=> PrintedError

\* the process has terminated with status 0 after generation failed, and
\* with the apology printed
ApologyExitsZero ==
  /\ Exited
  /\ genRaised
  /\ exitStatus = <<0>>
  /\ PrintedResponse
  /\ out[1].response = APOLOGY

ResponseEndsWithPeriod ==
  /\ pc = "L128" =>
       Len(response_data.response) > 0 /\ EndsWith(response_data.response, ".")
  /\ \A i \in 1..Len(out) :
       IsResponseObject(out[i]) =>
         Len(out[i].response) > 0 /\ EndsWith(out[i].response, ".")

\* a response was printed whose candidate was not empty and did not end in a
\* period
PeriodAppended ==
  /\ PrintedResponse
  /\ ~genRaised
  /\ Candidate(raw_output) # <<>>
  /\ WordCount(Candidate(raw_output)) <= WordLimit
  /\ ~EndsWith(Candidate(raw_output), ".")

\* C5: in every response object returned or printed, escalate is true exactly
\* when an exception was raised inside generation, and then the response is
\* the fixed apology.
EscalateIffGenerationFailed ==
  /\ pc = "L128" =>
       /\ response_data.escalate <=> genRaised
       /\ response_data.escalate => response_data.response = APOLOGY
  /\ \A i \in 1..Len(out) :
       IsResponseObject(out[i]) =>
         /\ out[i].escalate <=> genRaised
         /\ out[i].escalate => out[i].response = APOLOGY

\* the apology was printed with escalate true
EscalatedPrinted ==
  /\ PrintedResponse
  /\ out[1].escalate
  /\ genRaised

\* C6: once generate_response has been entered no exception is in flight in
\* the entrypoint except the SystemExit of its own error exits, the
\* "Error processing request" object is not printed, and the process ends
\* with a response object.
NoExceptionEscapesGenerate ==
  genCalls > 0 =>
    /\ exc = "None"
    /\ ~(PrintedError /\ out[1].error = "Error processing request")
    /\ Exited => PrintedResponse

\* C7: with the model path unset or nonexistent nothing is ever constructed
\* and standard input is never read, and the process ends with one error
\* object and status 1; standard input is read only once the model is
\* loaded; each constructor is called at most once.
LoaderBeforeInput ==
  /\ Falsy(MODEL_PATH) \/ ~PathExists(MODEL_PATH) =>
       /\ tokenizerLoads = 0 /\ modelLoads = 0 /\ stdinReads = 0
       /\ tokenizer = "unbound" /\ model = "unbound"
       /\ Exited => PrintedError /\ Len(out) = 1 /\ exitStatus = <<1>>
       /\ Exited /\ Falsy(MODEL_PATH) =>
            out[1].error = "MODEL_PATH not found in .env file."
       /\ Exited /\ ~Falsy(MODEL_PATH) =>
            out[1].error = "Model path does not exist"
  /\ stdinReads > 0 =>
       /\ tokenizerLoads = 1 /\ modelLoads = 1
       /\ model # "unbound" /\ tokenizer # "unbound"
  /\ pc = "L115" => model = "loaded" /\ tokenizer = "loaded"
  /\ tokenizerLoads <= 1 /\ modelLoads <= 1 /\ stdinReads <= 1

\* the process has terminated with status 1 because the model path does not
\* exist
MissingPathExited ==
  /\ Exited
  /\ ~Falsy(MODEL_PATH)
  /\ ~PathExists(MODEL_PATH)
  /\ exitStatus = <<1>>
  /\ PrintedError

\* C8: generate_response is entered, and a response object printed, only for
\* a request of the shape {"message": <string>}; for every other input the
\* process ends with an error object and status 1; generate_response is
\* entered at most once.
OnlyStringMessageAccepted ==
  /\ genCalls <= 1
  /\ genCalls > 0 \/ PrintedResponse => ValidRequest
  /\ Exited /\ ~ValidRequest => PrintedError /\ exitStatus = <<1>> /\ genCalls = 0

\* C9: the response of every response object returned or printed has at most
\* CharLimit + 3 characters.
ResponseCapped ==
  /\ pc = "L128" => Len(response_data.response) <= CharLimit + Len(ELLIPSIS)
  /\ \A i \in 1..Len(out) :
       IsResponseObject(out[i]) => Len(out[i].response) <= CharLimit + Len(ELLIPSIS)

\* the post-processing of a candidate c, as C10 states it
StatedPostProcess(c) ==
  IF c = <<>> THEN FALLBACK
  ELSE IF WordCount(c) > WordLimit THEN Prefix(c, CharLimit) \o ELLIPSIS
  ELSE IF EndsWith(c, ".") THEN c
  ELSE c \o <<".">>

\* C10: when generation did not fail, the response returned and printed is
\* the fallback sentence for an empty candidate, the first CharLimit
\* characters of the candidate followed by the ellipsis (and nothing more)
\* for a candidate of more than WordLimit words, and otherwise the candidate
\* with one period appended exactly when it does not end in one.
PostProcessAsStated ==
  /\ pc = "L128" /\ ~genRaised =>
       response_data.response = StatedPostProcess(Candidate(raw_output))
  /\ PrintedResponse /\ ~genRaised =>
       out[1].response = StatedPostProcess(Candidate(raw_output))

\* a candidate of more than WordLimit words and more than CharLimit
\* characters was cut and printed
TruncatedPrinted ==
  /\ PrintedResponse
  /\ ~genRaised
  /\ WordCount(Candidate(raw_output)) > WordLimit
  /\ Len(Candidate(raw_output)) > CharLimit
  /\ Len(out[1].response) = CharLimit + Len(ELLIPSIS)

=============================================================================
